---- MODULE Spec2Model ----
(***************************************************************************)
(* Dependency graph, content caches and cache invalidation of ng-packagr:  *)
(* the caching compiler host (src/lib/ts/cache-compiler-host.ts) and the   *)
(* invalidation pass (invalidateEntryPointsAndCacheOnFileChange).          *)
(***************************************************************************)
EXTENDS Integers, Sequences, FiniteSets, TLC

\* ------------------------------------------------------------------ bounds

\* File contents are versions 1..MaxContent; 0 stands for `undefined`.
MaxContent == 2
\* Longest list of changed paths handed to one invalidation pass.
MaxBatch == 2
\* readResource calls that may be suspended on the stylesheet bundler at once.
MaxInFlight == 1
\* Raw notifications chokidar emits in one run of the watcher.
MaxRaw == 2

Undefined == 0
Contents == 1..MaxContent

\* ------------------------------------------------------------------ names

\* Canonical (forward-slash) paths of the files under build.
TsPaths == {"/a.ts"}
StylePaths == {"/s.css", "/p.css", "/q.css"}
TemplatePaths == {"/t.html"}
Paths == TsPaths \cup StylePaths \cup TemplatePaths
\* A path as a Windows host spells it, and a path nothing ever referenced.
RawPaths == {"\\a.ts"}
UnknownPaths == {"/unrelated.ts"}
AllPaths == Paths \cup RawPaths \cup UnknownPaths

\* Module ids of the entry points, in the order they were put into the graph.
EntryPointSeq == <<"lib", "lib/sub">>
EntryPointIds == {EntryPointSeq[i] : i \in 1..Len(EntryPointSeq)}

ensureUnixPath(p) == IF p = "\\a.ts" THEN "/a.ts" ELSE p

URL_PROTOCOL_FILE == "file://"
URL_PROTOCOL_NG == "ng://"

fileUrl(p) == [protocol |-> URL_PROTOCOL_FILE, rest |-> p]

entryPointUrl(m) == [protocol |-> URL_PROTOCOL_NG, rest |-> m]

NoPath == "<undefined>"

fileUrlPath(u) == IF u.protocol = URL_PROTOCOL_FILE THEN u.rest ELSE NoPath

\* String.prototype.endsWith('.ts') on the strings of the model.
EndsWithTs(s) == s \in {"/a.ts", "\\a.ts", "/unrelated.ts"}

\* /(?:html?|svg)$/.test(path.extname(fileName))
IsTemplate(p) == p \in {"/t.html"}

FileUrls == {fileUrl(p) : p \in Paths \cup UnknownPaths}
EntryPoints == {entryPointUrl(m) : m \in EntryPointIds}
Urls == FileUrls \cup EntryPoints

isEntryPoint(u) == u.protocol = URL_PROTOCOL_NG

\* Node states: '' at construction, STATE_PENDING set by the invalidation pass,
\* 'done' by the orchestrator after a build.
STATE_PENDING == "pending"
STATE_DONE == "done"
STATE_NONE == ""

\* ------------------------------------------------------------------ state

VARIABLES
  nodes,        \* BuildGraph: the urls that have a node
  dependents,   \* Node._dependents: url -> the nodes it depends on
  dependees,    \* Node._dependees: url -> the nodes that depend on it
  state,        \* entry point -> Node.state
  caches,       \* FileCache instances: "sources" (global) and one per entry point
  outputCache,  \* entry point -> emitted file -> [content, version]
  fs,           \* the files on disk: path -> content, Undefined when missing
  inflight,     \* readResource calls suspended in stylesheetProcessor.bundleFile
  last,         \* the operation that produced this state, its result and effects
  watch,        \* the chokidar watcher made by createFileWatch
  observers     \* the subscriptions of onFileChange and what each was handed

vars == <<nodes, dependents, dependees, state, caches, outputCache, fs, inflight, last,
          watch, observers>>

\* The variables of the build: the graph, the caches, the disk and the calls.
buildVars == <<nodes, dependents, dependees, state, caches, outputCache, fs, inflight, last>>

\* ------------------------------------------------------------------ graph

\* The three fields of the graph as one value, threaded through the helpers.
Graph == [nodes |-> nodes, dependents |-> dependents, dependees |-> dependees]

NodeUri(fileName) == fileUrl(ensureUnixPath(fileName))

\* BuildGraph.get + put: the node of a url is created the first time it is asked for.
getNode(g, fileName) == [g EXCEPT !.nodes = @ \cup {NodeUri(fileName)}]

\* Node.dependsOn(dependent | dependent[]): each new dependent gets `this` as a
\* dependee, and `this` gets it as a dependent.
NodeDependsOn(g, this, newDeps) ==
  [g EXCEPT !.dependees = [u \in Urls |-> IF u \in newDeps THEN @[u] \cup {this} ELSE @[u]],
            !.dependents = [@ EXCEPT ![this] = @ \cup newDeps]]

addDependeeNodeOnly(g, entryPoint, fileName) == getNode(g, fileName)

\* const node = getNode(fileName); entryPoint.dependsOn(node)
addDependee(g, entryPoint, fileName) ==
  NodeDependsOn(getNode(g, fileName), entryPoint, {NodeUri(fileName)})

\* BuildGraph.find(node => url === node.url): urls are unique in the graph.
GraphFind(g, url) == IF url \in g.nodes THEN {url} ELSE {}

\* BuildGraph.filter(isEntryPoint), in insertion order.
GraphEntryPoints(g) ==
  SelectSeq([i \in 1..Len(EntryPointSeq) |-> entryPointUrl(EntryPointSeq[i])],
            LAMBDA u : u \in g.nodes)

\* ------------------------------------------------------------------ file cache

EmptyEntry == [exists |-> "undefined", content |-> Undefined, sourceFile |-> Undefined]

normalizeKey(fileName) == ensureUnixPath(fileName)

\* FileCache.getOrCreate: the cache afterwards (the entry is c[normalizeKey(fileName)]).
getOrCreate(c, fileName) ==
  IF normalizeKey(fileName) \in DOMAIN c THEN c
  ELSE [k \in DOMAIN c \cup {normalizeKey(fileName)} |->
          IF k \in DOMAIN c THEN c[k] ELSE EmptyEntry]

\* FileCache.delete
cacheDelete(c, fileName) == [k \in DOMAIN c \ {normalizeKey(fileName)} |-> c[k]]

\* ------------------------------------------------------------------ the underlying host

OnDisk(fileName) ==
  IF ensureUnixPath(fileName) \in DOMAIN fs THEN fs[ensureUnixPath(fileName)] ELSE Undefined

HostFileExists(fileName) == OnDisk(fileName) # Undefined

HostReadFile(fileName) == OnDisk(fileName)

\* ts.createSourceFile of the text on disk; undefined for a missing file.
Parse(text) == 10 + text

HostGetSourceFile(fileName) ==
  IF HostFileExists(fileName) THEN Parse(OnDisk(fileName)) ELSE Undefined

\* ------------------------------------------------------------------ calls

\* Calls run one at a time and to completion (or to their suspension): `last` holds
\* the call that just ended until its caller has taken the result.
NoCall == [op |-> "none"]

Idle == last = NoCall

\* ------------------------------------------------------------------ compiler host

\* A host is cacheCompilerHost(graph, entryPoint, ..., sourcesFileCache): its entry
\* point and the FileCache it was given ("sources" is entryPoint.cache.sourcesFileCache,
\* shared by all entry points; an entry point's id names its analysesSourcesFileCache).
SourcesCache == "sources"
CacheIds == {SourcesCache} \cup EntryPointIds
Hosts == [ep : EntryPoints, cache : CacheIds]

\* The entry of fileName as a call finds it (an empty one when there is none).
EntryOf(c, fileName) ==
  IF normalizeKey(fileName) \in DOMAIN c THEN c[normalizeKey(fileName)] ELSE EmptyEntry

HostLast(op, h, fileName, ret, threw, reads) ==
  [op |-> op, ep |-> h.ep, cache |-> h.cache, file |-> fileName, ret |-> ret,
   threw |-> threw, hostReads |-> reads, pre |-> EntryOf(caches[h.cache], fileName),
   preNodes |-> nodes, preDependents |-> dependents, preDependees |-> dependees,
   warned |-> FALSE, referencedFiles |-> {}, fresh |-> FALSE, errors |-> FALSE]

SetGraph(g) ==
  /\ nodes' = g.nodes
  /\ dependents' = g.dependents
  /\ dependees' = g.dependees

fileExists(h, fileName) ==
  LET k == normalizeKey(fileName)
      c1 == getOrCreate(caches[h.cache], fileName)
      miss == c1[k].exists = "undefined"
      e == IF miss
           THEN [c1[k] EXCEPT !.exists = IF HostFileExists(fileName) THEN "true" ELSE "false"]
           ELSE c1[k]
  IN /\ Idle
     /\ caches' = [caches EXCEPT ![h.cache] = [c1 EXCEPT ![k] = e]]
     /\ last' = HostLast("fileExists", h, fileName, e.exists, FALSE,
                         IF miss THEN {"exists"} ELSE {})
     /\ UNCHANGED <<watch, observers, nodes, dependents, dependees, state, outputCache, fs, inflight>>

SourceFileMissAlways(shouldCreateNewSourceFile, entry) == TRUE

\* The guard of getSourceFile's host call: shouldCreateNewSourceFile || !cache.sourceFile
SourceFileMiss(shouldCreateNewSourceFile, entry) ==
  shouldCreateNewSourceFile \/ entry.sourceFile = Undefined

getSourceFile(h, fileName, shouldCreateNewSourceFile) ==
  LET k == normalizeKey(fileName)
      c1 == getOrCreate(caches[h.cache], fileName)
      miss == SourceFileMiss(shouldCreateNewSourceFile, c1[k])
      e == IF miss THEN [c1[k] EXCEPT !.sourceFile = HostGetSourceFile(fileName)] ELSE c1[k]
  IN /\ Idle
     /\ SetGraph(addDependee(Graph, h.ep, fileName))
     /\ caches' = [caches EXCEPT ![h.cache] = [c1 EXCEPT ![k] = e]]
     /\ last' = [HostLast("getSourceFile", h, fileName, e.sourceFile, FALSE,
                          IF miss THEN {"sourceFile"} ELSE {})
                   EXCEPT !.fresh = shouldCreateNewSourceFile]
     /\ UNCHANGED <<watch, observers, state, outputCache, fs, inflight>>

readFile(h, fileName) ==
  LET k == normalizeKey(fileName)
      c1 == getOrCreate(caches[h.cache], fileName)
      miss == c1[k].content = Undefined
      e == IF miss THEN [c1[k] EXCEPT !.content = HostReadFile(fileName)] ELSE c1[k]
  IN /\ Idle
     /\ SetGraph(addDependee(Graph, h.ep, fileName))
     /\ caches' = [caches EXCEPT ![h.cache] = [c1 EXCEPT ![k] = e]]
     /\ last' = HostLast("readFile", h, fileName, e.content, FALSE,
                         IF miss THEN {"content"} ELSE {})
     /\ UNCHANGED <<watch, observers, state, outputCache, fs, inflight>>

\* resourcePath stands for path.resolve(path.dirname(containingFilePath), resourceName).
resourceNameToFileName(h, resourcePath, containingFilePath) ==
  LET g1 == getNode(Graph, containingFilePath)
      g2 == getNode(g1, resourcePath)
  IN /\ Idle
     /\ SetGraph(NodeDependsOn(g2, NodeUri(containingFilePath), {NodeUri(resourcePath)}))
     /\ last' = [HostLast("resourceNameToFileName", h, resourcePath, resourcePath, FALSE, {})
                   EXCEPT !.ep = NodeUri(containingFilePath)]
     /\ UNCHANGED <<watch, observers, state, caches, outputCache, fs, inflight>>

\* What stylesheetProcessor.bundleFile makes of the text on disk.
Bundle(text) == 20 + text

\* readResource up to its first suspension: it returns the cached content, throws
\* for a missing file, reads a template, or suspends in bundleFile for a stylesheet.
readResource(h, fileName) ==
  LET k == normalizeKey(fileName)
      c1 == getOrCreate(caches[h.cache], fileName)
      miss == c1[k].content = Undefined
      missing == miss /\ ~HostFileExists(fileName)
      template == miss /\ ~missing /\ IsTemplate(fileName)
      stylesheet == miss /\ ~missing /\ ~IsTemplate(fileName)
      e == IF template
           THEN [c1[k] EXCEPT !.content = HostReadFile(fileName), !.exists = "true"]
           ELSE c1[k]
  IN /\ Idle
     /\ stylesheet => Cardinality(inflight) < MaxInFlight
     /\ SetGraph(addDependee(Graph, h.ep, fileName))
     /\ caches' = [caches EXCEPT ![h.cache] = [c1 EXCEPT ![k] = e]]
     /\ inflight' = IF stylesheet
                    THEN inflight \cup {[ep |-> h.ep, cache |-> h.cache, file |-> fileName]}
                    ELSE inflight
     /\ last' = HostLast(IF stylesheet THEN "readResource:await" ELSE "readResource",
                         h, fileName,
                         IF missing \/ stylesheet THEN Undefined ELSE e.content,
                         missing,
                         IF ~miss THEN {}
                         ELSE IF template THEN {"exists", "content"} ELSE {"exists"})
     /\ UNCHANGED <<watch, observers, state, outputCache, fs>>

RECURSIVE getNodes(_, _)
\* [...referencedFiles].map(getNode)
getNodes(g, fileNames) ==
  IF fileNames = {} THEN g
  ELSE LET f == CHOOSE x \in fileNames : TRUE
       IN getNodes(getNode(g, f), fileNames \ {f})

\* The .ts dependees given their new dependents without the back edges.
tsDependeesOneSided(g, todo, depNodes) ==
  [g EXCEPT !.dependents =
     [u \in Urls |-> IF u \in todo /\ EndsWithTs(u.rest) THEN @[u] \cup depNodes ELSE @[u]]]

RECURSIVE tsDependeesDependOn(_, _, _)
\* for (const n of node.dependees) if (n.url.endsWith('.ts')) n.dependsOn(depNodes)
tsDependeesDependOn(g, todo, depNodes) ==
  IF todo = {} THEN g
  ELSE LET n == CHOOSE x \in todo : TRUE
       IN tsDependeesDependOn(IF EndsWithTs(n.rest) THEN NodeDependsOn(g, n, depNodes) ELSE g,
                              todo \ {n}, depNodes)

\* The edges readResource registers once bundleFile has answered.
registerReferencedFiles(g, fileName, referencedFiles) ==
  LET node == NodeUri(fileName)
      g1 == getNodes(getNode(g, fileName), referencedFiles)
      depNodes == {NodeUri(r) : r \in referencedFiles} \ {node}
      g2 == NodeDependsOn(g1, node, depNodes)
  IN tsDependeesDependOn(g2, g2.dependees[node], depNodes)

\* A bundler answer whose errors are reported and then passed over.
bundleOutcomeIgnoreErrors(hasErrors, contents) == [threw |-> FALSE, ret |-> contents]

\* if (esbuildErrors?.length > 0) { ...; throw new Error(...) }  return contents
bundleOutcome(hasErrors, contents) ==
  IF hasErrors THEN [threw |-> TRUE, ret |-> Undefined] ELSE [threw |-> FALSE, ret |-> contents]

\* A resumption that stores the bundled contents under the file's key.
resumeCachesStore(cs, call, contents) ==
  [cs EXCEPT ![call.cache] =
     [k \in DOMAIN @ \cup {normalizeKey(call.file)} |->
        IF k = normalizeKey(call.file)
        THEN [EntryOf(@, call.file) EXCEPT !.content = contents]
        ELSE @[k]]]

\* The caches after the resumption: the stylesheet branch returns `contents` and
\* assigns nothing to the entry it took before the await.
resumeCaches(cs, call, contents) == cs

\* readResource from bundleFile's answer to its end: it registers the referenced
\* files, then throws on errors or returns the bundled contents.
readResourceResume(call, referencedFiles, hasErrors, hasWarnings) ==
  /\ Idle
  /\ call \in inflight
  /\ inflight' = inflight \ {call}
  /\ SetGraph(registerReferencedFiles(Graph, call.file, referencedFiles))
  /\ last' = [HostLast("readResource:resume", [ep |-> call.ep, cache |-> call.cache],
                       call.file,
                       bundleOutcome(hasErrors, Bundle(OnDisk(call.file))).ret,
                       bundleOutcome(hasErrors, Bundle(OnDisk(call.file))).threw, {})
                EXCEPT !.warned = hasWarnings, !.referencedFiles = referencedFiles,
                       !.errors = hasErrors]
  /\ caches' = resumeCaches(caches, call, Bundle(OnDisk(call.file)))
  /\ UNCHANGED <<watch, observers, state, outputCache, fs>>

\* transformResource: only an inline style with an inlineStyleLanguage is bundled.
\* Nothing is read or written before bundleInline answers, so the call is one step.
transformResource(containingFile, hasResourceFile, type, hasInlineStyleLanguage, referencedFiles, hasErrors) ==
  LET bundled == ~hasResourceFile /\ type = "style" /\ hasInlineStyleLanguage
      g1 == getNodes(getNode(Graph, containingFile), referencedFiles)
      g2 == NodeDependsOn(g1, NodeUri(containingFile), {NodeUri(r) : r \in referencedFiles})
  IN /\ Idle
     /\ SetGraph(IF bundled THEN g2 ELSE Graph)
     /\ last' = [op |-> "transformResource", file |-> containingFile,
                 ret |-> IF bundled /\ bundleOutcome(hasErrors, 1).ret # Undefined
                         THEN "content" ELSE "null",
                 threw |-> bundled /\ bundleOutcome(hasErrors, 1).threw,
                 bundled |-> bundled, errors |-> hasErrors,
                 referencedFiles |-> referencedFiles,
                 preNodes |-> nodes, preDependents |-> dependents,
                 preDependees |-> dependees]
     /\ UNCHANGED <<watch, observers, state, caches, outputCache, fs, inflight>>

\* ------------------------------------------------------------------ output cache

\* createHash('sha256').update(data).digest('hex')
Sha256(data) == 31 * data + 7

OutFiles == {"/out/a.js", "/out/a.d.ts", "/out/a.ngtypecheck.js", "/out/lib.tsbuildinfo"}

IncludesNgTypeCheck(fileName) == fileName = "/out/a.ngtypecheck.js"

\* path.extname(fileName)
extname(fileName) ==
  CASE fileName = "/out/lib.tsbuildinfo" -> ".tsbuildinfo"
    [] fileName = "/out/a.d.ts" -> ".ts"
    [] OTHER -> ".js"

\* The branch of writeFile a call takes.
writeFileBranch(entryPoint, fileName, data, nSourceFiles) ==
  CASE IncludesNgTypeCheck(fileName) -> "skipped"
    [] nSourceFiles = 0 /\ extname(fileName) = ".tsbuildinfo" -> "disk"
    [] nSourceFiles # 1 -> "assert"
    [] /\ fileName \in DOMAIN outputCache[entryPoint]
       /\ outputCache[entryPoint][fileName].content = data -> "same"
    [] OTHER -> "set"

\* A set that keeps the version of the entry it replaces.
outputCacheSetStaleVersion(c, fileName, data) ==
  [k \in DOMAIN c \cup {fileName} |->
     IF k = fileName
     THEN [content |-> data,
           version |-> IF k \in DOMAIN c THEN c[k].version ELSE Sha256(data)]
     ELSE c[k]]

\* OutputFileCache.set(fileName, {content, version})
outputCacheSet(c, fileName, data) ==
  [k \in DOMAIN c \cup {fileName} |->
     IF k = fileName THEN [content |-> data, version |-> Sha256(data)] ELSE c[k]]

writeFile(entryPoint, fileName, data, nSourceFiles) ==
  LET branch == writeFileBranch(entryPoint, fileName, data, nSourceFiles)
  IN /\ Idle
     /\ outputCache' =
          IF branch = "set"
          THEN [outputCache EXCEPT ![entryPoint] = outputCacheSet(@, fileName, data)]
          ELSE outputCache
     /\ last' = [op |-> "writeFile", ep |-> entryPoint, file |-> fileName, data |-> data,
                 branch |-> branch, threw |-> branch = "assert",
                 pre |-> outputCache[entryPoint]]
     /\ UNCHANGED <<watch, observers, nodes, dependents, dependees, state, caches, fs, inflight>>

\* ------------------------------------------------------------------ invalidation

\* allNodesToClean is a Map<string, Node>: a sequence of [key, node] in insertion
\* order. Map.set of a present key replaces its value in place.
MapHas(m, k) == \E i \in 1..Len(m) : m[i].key = k

MapSetAppend(m, k, v) == Append(m, [key |-> k, node |-> v])

MapSet(m, k, v) ==
  IF MapHas(m, k)
  THEN [i \in 1..Len(m) |-> IF m[i].key = k THEN [key |-> k, node |-> v] ELSE m[i]]
  ELSE Append(m, [key |-> k, node |-> v])

MapKeys(m) == {m[i].key : i \in 1..Len(m)}

MapNodes(m) == {m[i].node : i \in 1..Len(m)}

Event(kind, ep, key) == [kind |-> kind, ep |-> ep, key |-> key]

RECURSIVE resolveChangedBreak(_, _, _)
\* The first loop leaving at the first path without a node (break for continue).
resolveChangedBreak(g, files, m) ==
  IF files = <<>> THEN m
  ELSE IF GraphFind(g, fileUrl(Head(files))) = {} THEN m
  ELSE resolveChangedBreak(g, Tail(files),
         MapSet(m, Head(files), CHOOSE n \in GraphFind(g, fileUrl(Head(files))) : TRUE))

RECURSIVE resolveChanged(_, _, _)
\* for (const filePath of files): the changed paths that have a node
resolveChanged(g, files, m) ==
  IF files = <<>> THEN m
  ELSE LET filePath == Head(files)
           found == GraphFind(g, fileUrl(filePath))
       IN resolveChanged(g, Tail(files),
                         IF found = {} THEN m
                         ELSE MapSet(m, filePath, CHOOSE n \in found : TRUE))

RECURSIVE addDependees(_, _, _)
\* for (const dependees of nodeToClean.dependees): st is [m, styles]
addDependees(g, todo, st) ==
  IF todo = {} THEN st
  ELSE LET d == CHOOSE x \in todo : TRUE
           filePath == fileUrlPath(d)
       IN addDependees(g, todo \ {d},
            IF filePath = NoPath THEN st
            ELSE [m |-> MapSet(st.m, filePath, d),
                  styles |-> IF EndsWithTs(filePath) THEN st.styles
                             ELSE st.styles \cup {filePath}])

\* An iteration without the `continue` for .ts files.
cleanNodeFanOutAll(g, st) ==
  LET fanned == addDependees(g, g.dependees[st.m[st.i].node],
                             [m |-> st.m, styles |-> st.styles \cup {st.m[st.i].key}])
  IN [st EXCEPT !.i = @ + 1,
                !.cache = cacheDelete(@, st.m[st.i].key),
                !.log = Append(@, Event("evict", st.m[st.i].node, st.m[st.i].key)),
                !.m = fanned.m,
                !.styles = fanned.styles]

cleanNodeNoDependees(g, st) ==
  [st EXCEPT !.i = @ + 1,
             !.cache = cacheDelete(@, st.m[st.i].key),
             !.log = Append(@, Event("evict", st.m[st.i].node, st.m[st.i].key)),
             !.styles = IF EndsWithTs(st.m[st.i].key) THEN @ ELSE @ \cup {st.m[st.i].key}]

\* One iteration of `for (const [filePath, nodeToClean] of allNodesToClean)`:
\* st is [m, i, cache, styles, log], i the position of the Map iterator.
cleanNode(g, st) ==
  LET filePath == st.m[st.i].key
      nodeToClean == st.m[st.i].node
      deleted == [st EXCEPT !.i = @ + 1,
                            !.cache = cacheDelete(@, filePath),
                            !.log = Append(@, Event("evict", nodeToClean, filePath))]
      fanned == addDependees(g, g.dependees[nodeToClean],
                             [m |-> st.m, styles |-> st.styles \cup {filePath}])
  IN IF EndsWithTs(filePath) THEN deleted
     ELSE [deleted EXCEPT !.m = fanned.m, !.styles = fanned.styles]

\* The iterations after which the model gives up on the loop.
LoopFuel == 2 * Cardinality(Urls)

\* The loop run over a copy of the Map taken before its first iteration.
cleanLoopOnce(g, st, n) ==
  IF st.i > Len(st.m) THEN [st |-> st, iterations |-> n, exhausted |-> FALSE]
  ELSE [st |-> [cleanNode(g, st) EXCEPT !.i = Len(cleanNode(g, st).m) + 1],
        iterations |-> n + 1, exhausted |-> FALSE]

RECURSIVE cleanLoop(_, _, _)
\* The Map iterator visits the entries added while it runs.
cleanLoop(g, st, n) ==
  IF st.i > Len(st.m) THEN [st |-> st, iterations |-> n, exhausted |-> FALSE]
  ELSE IF n >= LoopFuel THEN [st |-> st, iterations |-> n, exhausted |-> TRUE]
  ELSE cleanLoop(g, cleanNode(g, st), n + 1)

RECURSIVE checkDependentsAll(_, _, _, _)
\* The inner loop without its test of entryPoint.dependents.
checkDependentsAll(g, entryPoint, m, st) ==
  IF m = <<>> THEN st
  ELSE checkDependentsAll(g, entryPoint, Tail(m),
         [cache |-> cacheDelete(st.cache, Head(m).key),
          isDirty |-> TRUE,
          log |-> Append(st.log, Event("analysesEvict", entryPoint, Head(m).key))])

RECURSIVE checkDependents(_, _, _, _)
\* for (const [filePath, dependent] of allNodesToClean): st is [cache, isDirty, log]
checkDependents(g, entryPoint, m, st) ==
  IF m = <<>> THEN st
  ELSE checkDependents(g, entryPoint, Tail(m),
         IF Head(m).node \notin g.dependents[entryPoint] THEN st
         ELSE [cache |-> cacheDelete(st.cache, Head(m).key),
               isDirty |-> TRUE,
               log |-> Append(st.log, Event("analysesEvict", entryPoint, Head(m).key))])

\* What entryPoint.cache.stylesheetProcessor?.invalidate(...)?.length makes of an
\* entry point: "none" without a processor, else "empty" or "some" affected files.
Affected == {"none", "empty", "some"}

stylesCalledAlways(styles, affected, entryPoint) ==
  affected[entryPoint] # "none"

\* Whether the pass asks an entry point's processor: potentialStylesResources.size > 0
\* and the optional chain finds a stylesheetProcessor.
stylesCalled(styles, affected, entryPoint) ==
  styles # {} /\ affected[entryPoint] # "none"

markPendingAlways(states, entryPoint, isDirty) ==
  [states EXCEPT ![entryPoint] = STATE_PENDING]

\* if (isDirty) entryPoint.state = STATE_PENDING
markPending(states, entryPoint, isDirty) ==
  IF isDirty THEN [states EXCEPT ![entryPoint] = STATE_PENDING] ELSE states

RECURSIVE entryPointLoop(_, _, _, _, _, _)
\* for (const entryPoint of entryPoints): st is [caches, state, log, ret, calls]
entryPointLoop(g, entryPoints, m, styles, affected, st) ==
  IF entryPoints = <<>> THEN st
  ELSE LET entryPoint == Head(entryPoints)
           called == stylesCalled(styles, affected, entryPoint)
           log1 == IF called THEN Append(st.log, Event("stylesInvalidate", entryPoint, ""))
                   ELSE st.log
           deps == checkDependents(g, entryPoint, m,
                     [cache |-> st.caches[entryPoint.rest],
                      isDirty |-> called /\ affected[entryPoint] = "some",
                      log |-> log1])
       IN entryPointLoop(g, Tail(entryPoints), m, styles, affected,
            [caches |-> [st.caches EXCEPT ![entryPoint.rest] = deps.cache],
             state |-> markPending(st.state, entryPoint, deps.isDirty),
             log |-> IF deps.isDirty THEN Append(deps.log, Event("pending", entryPoint, ""))
                     ELSE deps.log,
             ret |-> st.ret \/ deps.isDirty,
             calls |-> IF called THEN st.calls \cup {entryPoint} ELSE st.calls])

\* The pass with the global evictions moved behind the entry point loop.
invalidateEvictLast(g, files, cs, states, affected) ==
  LET seeded == resolveChanged(g, files, <<>>)
      cleaned == cleanLoop(g, [m |-> seeded, i |-> 1, cache |-> cs[SourcesCache],
                               styles |-> {}, log |-> <<>>], 0)
      done == entryPointLoop(g, GraphEntryPoints(g), cleaned.st.m, cleaned.st.styles, affected,
                [caches |-> [cs EXCEPT ![SourcesCache] = cleaned.st.cache],
                 state |-> states, log |-> <<>>, ret |-> FALSE, calls |-> {}])
  IN [ret |-> done.ret, caches |-> done.caches, state |-> done.state,
      log |-> done.log \o cleaned.st.log,
      calls |-> done.calls, seeded |-> seeded, toClean |-> cleaned.st.m,
      styles |-> cleaned.st.styles, iterations |-> cleaned.iterations,
      exhausted |-> cleaned.exhausted]

\* invalidateEntryPointsAndCacheOnFileChange(graph, files, sourcesFileCache), whole.
invalidate(g, files, cs, states, affected) ==
  LET seeded == resolveChanged(g, files, <<>>)
      cleaned == cleanLoop(g, [m |-> seeded, i |-> 1, cache |-> cs[SourcesCache],
                               styles |-> {}, log |-> <<>>], 0)
      done == entryPointLoop(g, GraphEntryPoints(g), cleaned.st.m, cleaned.st.styles, affected,
                [caches |-> [cs EXCEPT ![SourcesCache] = cleaned.st.cache],
                 state |-> states, log |-> cleaned.st.log, ret |-> FALSE, calls |-> {}])
  IN [ret |-> done.ret, caches |-> done.caches, state |-> done.state, log |-> done.log,
      calls |-> done.calls, seeded |-> seeded, toClean |-> cleaned.st.m,
      styles |-> cleaned.st.styles, iterations |-> cleaned.iterations,
      exhausted |-> cleaned.exhausted]

\* A pass that also removes the nodes it cleaned from the graph.
InvalidateDroppingNodes(files, affected) ==
  LET r == invalidate(Graph, files, caches, state, affected)
  IN /\ Idle
     /\ caches' = r.caches
     /\ state' = r.state
     /\ nodes' = nodes \ MapNodes(r.toClean)
     /\ last' = [op |-> "invalidate", files |-> files, affected |-> affected, ret |-> r.ret,
                 log |-> r.log, calls |-> r.calls, seeded |-> r.seeded,
                 toClean |-> r.toClean, styles |-> r.styles,
                 iterations |-> r.iterations, exhausted |-> r.exhausted,
                 preCaches |-> caches, preState |-> state,
                 preNodes |-> nodes, preDependents |-> dependents,
                 preDependees |-> dependees, preOutputCache |-> outputCache]
     /\ UNCHANGED <<watch, observers, dependents, dependees, outputCache, fs, inflight>>

Invalidate(files, affected) ==
  LET r == invalidate(Graph, files, caches, state, affected)
  IN /\ Idle
     /\ caches' = r.caches
     /\ state' = r.state
     /\ last' = [op |-> "invalidate", files |-> files, affected |-> affected, ret |-> r.ret,
                 log |-> r.log, calls |-> r.calls, seeded |-> r.seeded,
                 toClean |-> r.toClean, styles |-> r.styles,
                 iterations |-> r.iterations, exhausted |-> r.exhausted,
                 preCaches |-> caches, preState |-> state,
                 preNodes |-> nodes, preDependents |-> dependents,
                 preDependees |-> dependees, preOutputCache |-> outputCache]
     /\ UNCHANGED <<watch, observers, nodes, dependents, dependees, outputCache, fs, inflight>>

\* ------------------------------------------------------------------ environment

\* The orchestrator finishes building an entry point.
buildDone(entryPoint) ==
  /\ Idle
  /\ state' = [state EXCEPT ![entryPoint] = STATE_DONE]
  /\ last' = [op |-> "buildDone", ep |-> entryPoint]
  /\ UNCHANGED <<watch, observers, nodes, dependents, dependees, caches, outputCache, fs, inflight>>

\* A file is written (content # Undefined) or removed on disk.
fsChange(path, content) ==
  /\ Idle
  /\ fs[path] # content
  /\ fs' = [fs EXCEPT ![path] = content]
  /\ last' = [op |-> "fsChange", file |-> path]
  /\ UNCHANGED <<watch, observers, nodes, dependents, dependees, state, caches, outputCache, inflight>>

\* The caller takes the result of the call that ended.
taken ==
  /\ ~Idle
  /\ last' = NoCall
  /\ UNCHANGED <<watch, observers, nodes, dependents, dependees, state, caches, outputCache, fs, inflight>>

\* ------------------------------------------------------------------ file watch

\* The subscriptions of onFileChange (each subscribe makes a new observer).
Subscribers == {"s1", "s2"}

FileWatchEvents == {"change", "unlink", "add"}
AllFileWatchEvents == FileWatchEvents \cup {"unlinkDir", "addDir"}

\* The paths chokidar reports: absolute, relative to the working directory "/", or
\* a directory.
RawFilePaths == {"/a.ts", "s.css"}
RawDirPaths == {"/dir"}

\* The raw notifications of chokidar's 'all' event.
RawNotifications ==
  [event : FileWatchEvents, filePath : RawFilePaths]
    \cup [event : AllFileWatchEvents \ FileWatchEvents, filePath : RawDirPaths]

\* path.resolve(filePath) with the working directory "/".
resolve(filePath) == IF filePath = "s.css" THEN "/s.css" ELSE filePath

\* chokidar.watch([], {...}): no path watched, nobody listening.
newWatch(isLinux) ==
  [closed |-> FALSE, listeners |-> {}, watched |-> {}, isLinux |-> isLinux, raw |-> <<>>]

newObserver == [status |-> "none", from |-> 0, received |-> <<>>]

\* Subscriber.next: a closed subscriber drops the value.
observerNext(obs, value) ==
  IF obs.status = "subscribed" THEN [obs EXCEPT !.received = Append(@, value)] ELSE obs

\* A test that lets addDir through.
isDirectoryEventUnlinkOnly(event) == event = "unlinkDir"

\* event === 'unlinkDir' || event === 'addDir'
isDirectoryEvent(event) == event = "unlinkDir" \/ event = "addDir"

\* handleFileChange's effect on the observer it was bound to.
handleFileChange(event, filePath, obs) ==
  IF isDirectoryEvent(event) THEN obs
  ELSE observerNext(obs, [filePath |-> ensureUnixPath(resolve(filePath)), event |-> event])

\* handleFileChange's effect on the watcher: watch.unwatch(filePath); watch.add(filePath)
rewatch(w, filePath) ==
  IF w.isLinux /\ w.listeners # {} THEN [w EXCEPT !.watched = @ \cup {filePath}] ELSE w

\* A teardown that leaves the watcher running.
watchCloseNot(w) == w

\* FSWatcher.close(): the handles are released and the listeners removed.
watchClose(w) == [w EXCEPT !.closed = TRUE, !.listeners = {}, !.watched = {}]

\* onFileChange.subscribe(observer): watch.on('all', ...)
subscribe(s) ==
  /\ observers[s].status = "none"
  /\ observers' = [observers EXCEPT ![s] = [status |-> "subscribed", from |-> Len(watch.raw),
                                            received |-> <<>>]]
  /\ watch' = [watch EXCEPT !.listeners = @ \cup {s}]
  /\ UNCHANGED buildVars

\* subscription.unsubscribe(): the subscriber is closed, then the teardown runs.
unsubscribe(s) ==
  /\ observers[s].status = "subscribed"
  /\ observers' = [observers EXCEPT ![s].status = "closed"]
  /\ watch' = watchClose(watch)
  /\ UNCHANGED buildVars

\* chokidar emits 'all': every listener runs handleFileChange with its observer.
notify(event, filePath) ==
  /\ ~watch.closed
  /\ Len(watch.raw) < MaxRaw
  /\ watch' = [rewatch(watch, filePath) EXCEPT
                 !.raw = Append(@, [event |-> event, filePath |-> filePath])]
  /\ observers' = [s \in Subscribers |->
                     IF s \in watch.listeners
                     THEN handleFileChange(event, filePath, observers[s])
                     ELSE observers[s]]
  /\ UNCHANGED buildVars

\* ------------------------------------------------------------------ specifications

EmptyCache == [k \in {} |-> EmptyEntry]

InitWatch(platforms) ==
  /\ watch \in {newWatch(isLinux) : isLinux \in platforms}
  /\ observers = [s \in Subscribers |-> newObserver]

\* The build before the first compilation: the entry points, no edge, empty caches.
InitBuild ==
  /\ nodes = EntryPoints
  /\ dependents = [u \in Urls |-> {}]
  /\ dependees = [u \in Urls |-> {}]
  /\ state = [e \in EntryPoints |-> STATE_NONE]
  /\ caches = [c \in CacheIds |-> EmptyCache]
  /\ outputCache = [e \in EntryPoints |-> [k \in {} |-> [content |-> 0, version |-> 0]]]
  /\ fs = [p \in Paths |-> 1]
  /\ inflight = {}
  /\ last = NoCall

Init == InitWatch({TRUE}) /\ InitBuild

\* The sequences of at most MaxBatch changed paths.
Batches(S) == UNION {[1..n -> S] : n \in 0..MaxBatch}

\* The answers of the entry points' stylesheet processors. They are drawn when the
\* pass has resource candidates to ask about; otherwise every processor stands
\* ready to report affected files.
AllAffected == [e \in EntryPoints |-> "some"]

Answers(files) ==
  IF invalidate(Graph, files, caches, state, AllAffected).styles = {}
  THEN {AllAffected}
  ELSE [EntryPoints -> Affected]

Lib == entryPointUrl("lib")
LibSub == entryPointUrl("lib/sub")
LibSources == [ep |-> Lib, cache |-> SourcesCache]
LibAnalyses == [ep |-> Lib, cache |-> "lib"]
SubSources == [ep |-> LibSub, cache |-> SourcesCache]

\* Processors that find nothing affected: a pass then marks by dependents alone.
NoneAffected == [e \in EntryPoints |-> "empty"]

\* The compilation of lib and its component stylesheet, watched for changes; lib/sub
\* reads the same stylesheet.
Next ==
  \/ \E h \in {LibSources, LibAnalyses}, fresh \in BOOLEAN : getSourceFile(h, "/a.ts", fresh)
  \/ resourceNameToFileName(LibSources, "/s.css", "/a.ts")
  \/ \E h \in {LibSources, SubSources} : readResource(h, "/s.css")
  \/ \E call \in inflight, refs \in SUBSET {"/s.css"}, err \in BOOLEAN :
       readResourceResume(call, refs, err, FALSE)
  \/ \E e \in EntryPoints : buildDone(e)
  \/ Idle /\ \E files \in Batches({"/a.ts", "/s.css", "/unrelated.ts"}) :
       \E affected \in Answers(files) : Invalidate(files, affected)
  \/ taken

Spec == Init /\ [][Next]_vars

\* Stylesheets that import each other: chains and cycles of resources.
NextChain ==
  \/ readResource(LibSources, "/s.css")
  \/ readResource(SubSources, "/p.css")
  \/ \E call \in inflight, refs \in SUBSET StylePaths :
       readResourceResume(call, refs, FALSE, FALSE)
  \/ Idle /\ \E files \in Batches(StylePaths) : Invalidate(files, NoneAffected)
  \/ taken

SpecChain == Init /\ [][NextChain]_vars

\* Every operation of the caching host, with a stylesheet that comes and goes on disk.
NextHost ==
  \/ \E fresh \in BOOLEAN : getSourceFile(LibSources, "/a.ts", fresh)
  \/ readFile(LibSources, "/s.css")
  \/ resourceNameToFileName(LibSources, "/s.css", "/a.ts")
  \/ readResource(LibSources, "/s.css")
  \/ \E call \in inflight, refs \in SUBSET {"/s.css", "/p.css"}, err \in BOOLEAN, warn \in BOOLEAN :
       readResourceResume(call, refs, err, warn)
  \/ \E type \in {"style", "template"}, lang \in BOOLEAN, refs \in SUBSET {"/p.css"}, err \in BOOLEAN :
       transformResource("/a.ts", FALSE, type, lang, refs, err)
  \/ \E c \in {Undefined, 1} : fsChange("/s.css", c)
  \/ \E f \in {"/a.ts", "/s.css", "/p.css"} : Invalidate(<<f>>, AllAffected)
  \/ taken

SpecHost == Init /\ [][NextHost]_vars

\* The content cache in front of a disk that changes under it.
NextCache ==
  \/ \E f \in {"/a.ts", "\\a.ts", "/t.html"} : fileExists(LibSources, f)
  \/ \E f \in {"/a.ts", "/t.html"} : readFile(LibSources, f)
  \/ \E f \in {"/a.ts", "\\a.ts"}, fresh \in BOOLEAN : getSourceFile(LibSources, f, fresh)
  \/ readResource(LibSources, "/t.html")
  \/ \E f \in {"/a.ts", "/t.html"}, c \in {Undefined} \cup Contents : fsChange(f, c)
  \/ \E f \in {"/a.ts", "/t.html"} : Invalidate(<<f>>, AllAffected)
  \/ taken

SpecCache == Init /\ [][NextCache]_vars

\* The emit of lib and lib/sub into their output caches.
NextOutput ==
  \/ \E e \in EntryPoints, f \in OutFiles, data \in Contents, n \in 0..2 : writeFile(e, f, data, n)
  \/ taken

SpecOutput == Init /\ [][NextOutput]_vars

\* lib analysed through its private cache, its component stylesheet read by lib/sub,
\* an emitted file, and the passes over both files.
NextTargets ==
  \/ getSourceFile(LibAnalyses, "/a.ts", FALSE)
  \/ fileExists(LibAnalyses, "/s.css")
  \/ resourceNameToFileName(LibAnalyses, "/s.css", "/a.ts")
  \/ readResource(SubSources, "/s.css")
  \/ \E call \in inflight : readResourceResume(call, {}, FALSE, FALSE)
  \/ writeFile(Lib, "/out/a.js", 1, 1)
  \/ Idle /\ \E files \in Batches({"/a.ts", "/s.css"}) :
       \E affected \in Answers(files) : Invalidate(files, affected)
  \/ taken

SpecTargets == Init /\ [][NextTargets]_vars

NextWatch ==
  \/ \E s \in Subscribers : subscribe(s)
  \/ \E s \in Subscribers : unsubscribe(s)
  \/ \E n \in RawNotifications : notify(n.event, n.filePath)

\* createFileWatch on either platform, the build standing still.
InitPlatforms == InitWatch(BOOLEAN) /\ InitBuild

SpecWatch == InitPlatforms /\ [][NextWatch]_vars

\* ------------------------------------------------------------------ properties

Range(seq) == {seq[i] : i \in 1..Len(seq)}

Invalidated == last.op = "invalidate"

HasNode(p) == fileUrl(p) \in nodes

\* The dependees, with a file path, of the resources (non-.ts members) of S.
ResourceDependees(S) ==
  {fileUrlPath(d) : d \in UNION {dependees[fileUrl(p)] : p \in {x \in S : ~EndsWithTs(x)}}}
    \ {NoPath}

RECURSIVE Least(_)
Least(S) == IF ResourceDependees(S) \subseteq S THEN S ELSE Least(S \cup ResourceDependees(S))

\* The least set that holds the changed paths with a node and, with each of its
\* resources, that resource's dependees with a file path.
LeastToClean(files) == Least({p \in Range(files) : HasNode(p)})

\* C1: a pass whose changed paths all have no node returns false, evicts nothing from
\* the global cache or from any entry point's private cache, asks no entry point's
\* stylesheet processor and leaves every entry point's state as it was.
C1_NoOpOnUnknownPath ==
  (Invalidated /\ \A p \in Range(last.files) : ~HasNode(p))
    => /\ last.ret = FALSE
       /\ caches = last.preCaches
       /\ last.calls = {}
       /\ state = last.preState

C1_Witness ==
  /\ Invalidated
  /\ last.files # <<>>
  /\ \A p \in Range(last.files) : ~HasNode(p)
  /\ last.affected = AllAffected
  /\ DOMAIN caches[SourcesCache] # {}
  /\ DOMAIN caches["lib"] # {}
  /\ state[Lib] = STATE_DONE
  /\ state[LibSub] = STATE_PENDING

\* C2: when a pass returns, its cleaned set is the least set toClean, and the global
\* content cache holds no entry for any identifier of it.
C2_EvictionCompleteness ==
  Invalidated =>
    /\ MapKeys(last.toClean) = LeastToClean(last.files)
    /\ \A p \in LeastToClean(last.files) : p \notin DOMAIN caches[SourcesCache]

\* lib -> a.ts -> s.css with both files cached: invalidate([s.css]) pulls in a.ts.
C2_Witness ==
  /\ Invalidated
  /\ last.files = <<"/s.css">>
  /\ {"/a.ts", "/s.css"} \subseteq DOMAIN last.preCaches[SourcesCache]
  /\ fileUrl("/a.ts") \in dependents[Lib]
  /\ fileUrl("/s.css") \in dependents[fileUrl("/a.ts")]
  /\ MapKeys(last.seeded) = {"/s.css"}
  /\ "/a.ts" \in LeastToClean(last.files)
  /\ state[Lib] = STATE_PENDING
  /\ last.ret = TRUE

IsResourceUrl(u) == u.protocol = URL_PROTOCOL_FILE /\ ~EndsWithTs(u.rest)

RECURSIVE ResourceReach(_)
\* The resources that the resources of X depend on, through resources only.
ResourceReach(X) ==
  LET Y == X \cup {d \in UNION {dependents[u] : u \in X} : IsResourceUrl(d)}
  IN IF Y = X THEN X ELSE ResourceReach(Y)

\* C3: when stylesheet S depends on partial P, directly or through further resources,
\* and entry point T depends on S but not on P, invalidate([P]) sets T to pending and
\* returns true, whatever T's stylesheet processor answers.
C3_TransitiveResourceFanOut ==
  \A P \in StylePaths :
    (Invalidated /\ last.files = <<P>>) =>
      \A T \in EntryPoints : \A S \in dependents[T] :
        (/\ IsResourceUrl(S)
         /\ fileUrl(P) \in ResourceReach({S})
         /\ fileUrl(P) \notin dependents[T])
          => state[T] = STATE_PENDING /\ last.ret = TRUE

\* s.css -> p.css -> q.css, lib depends on s.css alone and was not pending: q.css changes.
C3_Witness ==
  /\ Invalidated
  /\ last.files = <<"/q.css">>
  /\ dependents[Lib] = {fileUrl("/s.css")}
  /\ dependents[fileUrl("/s.css")] = {fileUrl("/p.css")}
  /\ dependents[fileUrl("/p.css")] = {fileUrl("/q.css")}
  /\ last.affected = NoneAffected
  /\ last.preState[Lib] # STATE_PENDING
  /\ state[Lib] = STATE_PENDING
  /\ last.ret = TRUE

Count(seq, kind) == Cardinality({i \in 1..Len(seq) : seq[i].kind = kind})

\* C4: every pass ends, whatever cycles the resources form, and every node is in the
\* cleaned set at most once and is processed exactly once.
C4_CycleSafety ==
  Invalidated =>
    /\ ~last.exhausted
    /\ Cardinality(MapKeys(last.toClean)) = Len(last.toClean)
    /\ Cardinality(MapNodes(last.toClean)) = Len(last.toClean)
    /\ last.iterations = Len(last.toClean)
    /\ Count(last.log, "evict") = Len(last.toClean)

\* s.css and p.css import each other, and s.css changes.
C4_Witness ==
  /\ Invalidated
  /\ last.files = <<"/s.css">>
  /\ fileUrl("/p.css") \in dependents[fileUrl("/s.css")]
  /\ fileUrl("/s.css") \in dependents[fileUrl("/p.css")]
  /\ MapKeys(last.toClean) = {"/s.css", "/p.css"}
  /\ last.iterations = 2

\* The resource candidates of a pass: the resources of its cleaned set.
ResourceCandidates(files) == {p \in LeastToClean(files) : ~EndsWithTs(p)}

\* An entry point is dirty when its processor reports affected files for a non-empty
\* set of candidates, or when it depends on a node of the cleaned set.
MarkedDirty(e) ==
  \/ ResourceCandidates(last.files) # {} /\ last.affected[e] = "some"
  \/ \E p \in LeastToClean(last.files) : fileUrl(p) \in dependents[e]

SetPending(e) == \E i \in 1..Len(last.log) : last.log[i] = Event("pending", e, "")

\* C5: a pass sets an entry point to pending exactly when it marked it dirty, leaves the
\* state of the others as it was, and returns true exactly when it set one to pending.
C5_DirtySignal ==
  Invalidated =>
    /\ \A e \in EntryPoints :
         /\ SetPending(e) <=> MarkedDirty(e)
         /\ state[e] = IF MarkedDirty(e) THEN STATE_PENDING ELSE last.preState[e]
    /\ last.ret <=> \E e \in EntryPoints : SetPending(e)

\* lib is dirty through its dependents, lib/sub is asked and reports nothing.
C5_Witness ==
  /\ Invalidated
  /\ last.ret = TRUE
  /\ last.preState[Lib] = STATE_DONE
  /\ state[Lib] = STATE_PENDING
  /\ ~MarkedDirty(LibSub)
  /\ LibSub \in last.calls
  /\ state[LibSub] = STATE_DONE

Decisions == {"stylesInvalidate", "analysesEvict", "pending"}

ReachesOutputCache == last.op = "writeFile" /\ last.branch \in {"same", "set"}

\* C7: a write whose content equals the cached content leaves the entry as it is and
\* sets nothing; a write with other content replaces the entry; and every entry's
\* version is the hash of its content.
C7_IdempotentOutputWrite ==
  /\ \A e \in EntryPoints : \A f \in DOMAIN outputCache[e] :
       outputCache[e][f].version = Sha256(outputCache[e][f].content)
  /\ ReachesOutputCache =>
       /\ (last.file \in DOMAIN last.pre /\ last.pre[last.file].content = last.data)
            => last.branch = "same" /\ outputCache[last.ep] = last.pre
       /\ ~(last.file \in DOMAIN last.pre /\ last.pre[last.file].content = last.data)
            => /\ last.branch = "set"
               /\ outputCache[last.ep][last.file] =
                    [content |-> last.data, version |-> Sha256(last.data)]
               /\ \A f \in DOMAIN last.pre \ {last.file} :
                    outputCache[last.ep][f] = last.pre[f]

\* Other content written over a cached entry.
C7_WitnessReplaced ==
  /\ ReachesOutputCache
  /\ last.branch = "set"
  /\ last.file \in DOMAIN last.pre
  /\ last.pre[last.file].content # last.data
  /\ outputCache[last.ep][last.file].version # last.pre[last.file].version

\* The same content written again.
C7_Witness ==
  /\ ReachesOutputCache
  /\ last.branch = "same"
  /\ outputCache[last.ep] = last.pre

EdgeOps == {"getSourceFile", "readFile", "readResource", "readResource:await",
            "resourceNameToFileName"}

GraphUnchanged ==
  /\ nodes = last.preNodes
  /\ dependents = last.preDependents
  /\ dependees = last.preDependees

\* C8: B is in A's dependents exactly when A is in B's dependees, in every state; and
\* a call that adds an edge the graph already has leaves the graph as it was.
C8_EdgeSymmetry ==
  /\ \A a, b \in Urls : b \in dependents[a] <=> a \in dependees[b]
  /\ (last.op \in EdgeOps /\ NodeUri(last.file) \in last.preDependents[last.ep])
       => GraphUnchanged

\* resourceNameToFileName repeated on a graph that holds the bundler's edges: the
\* stylesheet's and the ones passed on to its .ts dependee.
C8_Witness ==
  /\ last.op = "resourceNameToFileName"
  /\ NodeUri(last.file) \in last.preDependents[last.ep]
  /\ fileUrl("/p.css") \in dependents[fileUrl("/s.css")]
  /\ fileUrl("/p.css") \in dependents[fileUrl("/a.ts")]
  /\ fileUrl("/a.ts") \in dependees[fileUrl("/p.css")]
  /\ fileUrl("/s.css") \in dependents[Lib]

\* C10: getSourceFile, readFile and readResource leave the node of their file and the
\* edge from the host's entry point to it, from the cache or not, thrown or not;
\* resourceNameToFileName leaves the edge from the containing file to the resource.
C10_EdgeRegistration ==
  /\ last.op \in {"getSourceFile", "readFile", "readResource", "readResource:await",
                  "readResource:resume"}
       => /\ NodeUri(last.file) \in nodes
          /\ NodeUri(last.file) \in dependents[last.ep]
          /\ last.ep \in dependees[NodeUri(last.file)]
  /\ last.op = "resourceNameToFileName"
       => /\ {last.ep, NodeUri(last.file)} \subseteq nodes
          /\ NodeUri(last.file) \in dependents[last.ep]
          /\ last.ep \in dependees[NodeUri(last.file)]

\* readResource throws for a stylesheet that is gone from the disk and that the graph
\* did not know: the node and the edge are there all the same.
C10_Witness ==
  /\ last.op = "readResource"
  /\ last.threw
  /\ NodeUri(last.file) \notin last.preNodes
  /\ NodeUri(last.file) \in dependents[last.ep]

CacheOps == {"fileExists", "readFile", "getSourceFile", "readResource"}

\* C9 as stated: a populated field is returned from the cache, and the host is not
\* asked for it again, by every later call until the entry is evicted.
C9_CacheTrust ==
  last.op \in CacheOps =>
    /\ last.pre.exists # "undefined" =>
         /\ "exists" \notin last.hostReads
         /\ last.op = "fileExists" => last.ret = last.pre.exists
    /\ last.pre.content # Undefined =>
         /\ "content" \notin last.hostReads
         /\ last.op \in {"readFile", "readResource"} => last.ret = last.pre.content
    /\ last.pre.sourceFile # Undefined =>
         /\ "sourceFile" \notin last.hostReads
         /\ last.op = "getSourceFile" => last.ret = last.pre.sourceFile

\* The entry of the last call's file, as the call left it.
EntryNow == EntryOf(caches[last.cache], last.file)

\* C9, amended: fileExists trusts a populated exists, readFile and readResource trust
\* a populated content, getSourceFile without shouldCreateNewSourceFile trusts a
\* populated parsed unit: the cached value is returned, the host is not asked and the
\* entry stays as it was. Populated content is never read again by any call.
C9_CacheTrustAmended ==
  last.op \in CacheOps =>
    /\ (last.op = "fileExists" /\ last.pre.exists # "undefined")
         => last.ret = last.pre.exists /\ last.hostReads = {} /\ EntryNow = last.pre
    /\ (last.op \in {"readFile", "readResource"} /\ last.pre.content # Undefined)
         => last.ret = last.pre.content /\ last.hostReads = {} /\ EntryNow = last.pre
    /\ (last.op = "getSourceFile" /\ ~last.fresh /\ last.pre.sourceFile # Undefined)
         => last.ret = last.pre.sourceFile /\ last.hostReads = {} /\ EntryNow = last.pre
    /\ last.pre.content # Undefined
         => "content" \notin last.hostReads /\ EntryNow.content = last.pre.content
    /\ (last.pre.exists # "undefined" /\ "exists" \in last.hostReads)
         => last.op = "readResource" /\ last.pre.content = Undefined
    /\ (last.pre.sourceFile # Undefined /\ "sourceFile" \in last.hostReads)
         => last.op = "getSourceFile" /\ last.fresh

\* The parsed unit of a.ts is returned from the cache although the file has changed
\* on disk since it was parsed.
C9_Witness ==
  /\ last.op = "getSourceFile"
  /\ ~last.fresh
  /\ last.pre.sourceFile # Undefined
  /\ last.pre.sourceFile # HostGetSourceFile(last.file)
  /\ last.ret = last.pre.sourceFile
  /\ last.hostReads = {}

\* C11: a readResource whose bundler answer carries an error throws, returns no
\* contents and leaves the content cache entry of the file as it was; an inline style
\* whose bundler answer carries an error throws too; without errors, warnings or not,
\* the bundled contents are returned.
C11_TransformFailure ==
  /\ last.op = "readResource:resume" =>
       /\ last.errors => /\ last.threw
                         /\ last.ret = Undefined
                         /\ EntryOf(caches[last.cache], last.file) = last.pre
       /\ ~last.errors => /\ ~last.threw
                          /\ last.ret = Bundle(OnDisk(last.file))
  /\ (last.op = "transformResource" /\ last.bundled) =>
       /\ last.errors => last.threw /\ last.ret # "content"
       /\ ~last.errors => ~last.threw /\ last.ret = "content"

\* The bundler reported errors and warnings for s.css: readResource has thrown.
C11_Witness ==
  /\ last.op = "readResource:resume"
  /\ last.errors
  /\ last.warned
  /\ last.threw

\* The bundler reported warnings only: the contents are returned.
C11_WitnessWarnings ==
  /\ last.op = "readResource:resume"
  /\ ~last.errors
  /\ last.warned
  /\ last.ret = Bundle(OnDisk(last.file))

\* The events a subscriber was handed, as a set of positions.
Received(s) == observers[s].received

\* C12 as stated: no subscriber is handed two events for the same identifier in one
\* burst of raw notifications.
C12_NormalizerDeduplication ==
  \A s \in Subscribers : \A i, j \in 1..Len(Received(s)) :
    Received(s)[i].filePath = Received(s)[j].filePath => i = j

\* The raw file notifications a subscriber has been listening to, as the events
\* they are to be forwarded as.
RECURSIVE Forwarded(_)
Forwarded(raws) ==
  IF raws = <<>> THEN <<>>
  ELSE LET r == Head(raws)
       IN (IF r.event \in FileWatchEvents
           THEN <<[filePath |-> IF r.filePath = "s.css" THEN "/s.css" ELSE r.filePath,
                   event |-> r.event]>>
           ELSE <<>>) \o Forwarded(Tail(raws))

Heard(s) == SubSeq(watch.raw, observers[s].from + 1, Len(watch.raw))

\* C13: no subscriber is ever handed an addDir or unlinkDir event, and what each
\* subscriber was handed is, one for one and in order, the change, add and unlink
\* notifications raised since it subscribed, with their kinds.
C13_DirectorySuppression ==
  \A s \in Subscribers :
    /\ \A i \in 1..Len(Received(s)) : Received(s)[i].event \in FileWatchEvents
    /\ observers[s].status # "none" => Received(s) = Forwarded(Heard(s))

\* Both subscribers listen while a directory notification and a file notification
\* are raised: each was handed the file event only.
C13_Witness ==
  /\ \A s \in Subscribers : observers[s].status = "subscribed" /\ Len(Received(s)) = 1
  /\ \E i \in 1..Len(watch.raw) : watch.raw[i].event \in {"addDir", "unlinkDir"}
  /\ \E i \in 1..Len(watch.raw) : watch.raw[i].event \in FileWatchEvents

\* C14: a subscriber that has not subscribed has been handed nothing; once a
\* subscription is closed the watcher is closed with no path watched, it stays
\* closed, and the closed subscriber is handed nothing more.
C14_SubscriptionLifecycle ==
  /\ [](\A s \in Subscribers :
          /\ observers[s].status = "none" => Received(s) = <<>>
          /\ observers[s].status = "closed" => watch.closed /\ watch.watched = {})
  /\ [][\A s \in Subscribers :
          observers[s].status = "closed" =>
            /\ observers'[s] = observers[s]
            /\ watch'.closed]_vars

\* One subscriber has closed after an event, on Linux, while the other still
\* listens: the watcher is closed for both.
C14_Witness ==
  /\ observers["s1"].status = "closed"
  /\ observers["s2"].status = "subscribed"
  /\ Len(Received("s1")) > 0
  /\ watch.isLinux
  /\ watch.closed

RECURSIVE Reachable(_)
\* The nodes reached from the nodes of X through dependsOn edges, X included.
Reachable(X) ==
  LET Y == X \cup UNION {dependents[u] : u \in X}
  IN IF Y = X THEN X ELSE Reachable(Y)

\* The nodes reached from T through one or more dependsOn edges.
TransitiveDependents(T) == Reachable(dependents[T])

\* The private cache of T holds for id what it held before the pass.
PrivateEntryUnchanged(T, id) ==
  /\ id \in DOMAIN caches[T.rest] <=> id \in DOMAIN last.preCaches[T.rest]
  /\ id \in DOMAIN caches[T.rest] => caches[T.rest][id] = last.preCaches[T.rest][id]

ChangedWithNode == {p \in Range(last.files) : HasNode(p)}

\* C16: no .ts file is a resource candidate, and every member of the cleaned set is a
\* changed file or a dependee of a resource of the cleaned set, never there on account
\* of a .ts member; so a pass over .ts files alone cleans exactly the changed files
\* that have a node, has no resource candidate and asks no stylesheet processor.
C16_NoFanOutFromTs ==
  Invalidated =>
    /\ \A p \in last.styles : ~EndsWithTs(p)
    /\ MapKeys(last.toClean) \subseteq
         ChangedWithNode \cup ResourceDependees(MapKeys(last.toClean))
    /\ (\A p \in Range(last.files) : EndsWithTs(p)) =>
         /\ MapKeys(last.toClean) = ChangedWithNode
         /\ last.styles = {}
         /\ last.calls = {}

\* a.ts has dependees (lib) and a dependent stylesheet, every processor stands ready,
\* and a.ts changes: the pass cleans a.ts alone.
C16_Witness ==
  /\ Invalidated
  /\ last.files = <<"/a.ts">>
  /\ Lib \in dependees[fileUrl("/a.ts")]
  /\ fileUrl("/s.css") \in dependents[fileUrl("/a.ts")]
  /\ last.affected = AllAffected
  /\ MapKeys(last.toClean) = {"/a.ts"}
  /\ last.calls = {}
  /\ state[Lib] = STATE_PENDING

\* a.ts is pulled in as the dependee of the changed s.css.
C16_WitnessPulledIn ==
  /\ Invalidated
  /\ last.files = <<"/s.css">>
  /\ MapKeys(last.toClean) = {"/s.css", "/a.ts"}
  /\ last.styles = {"/s.css"}
  /\ dependees[fileUrl("/a.ts")] # {}

\* The pass run instead on another list of changed paths, from the same graph,
\* caches, states and processor answers.
PassOn(files) == invalidate(Graph, files, last.preCaches, last.preState, last.affected)

\* C17: a pass over any list with the same set of paths as the pass just run, in any
\* order and with any repetition, leaves the same caches, hands the same candidates
\* to the processors, leaves the same states and returns the same boolean.
C17_BatchOrderInsensitivity ==
  Invalidated =>
    \A files \in Batches(StylePaths) :
      Range(files) = Range(last.files) =>
        /\ PassOn(files).caches = caches
        /\ PassOn(files).styles = last.styles
        /\ PassOn(files).calls = last.calls
        /\ PassOn(files).state = state
        /\ PassOn(files).ret = last.ret

\* q.css has no node, s.css imports p.css and is cached: the pass over <<q.css, s.css>>
\* against the pass over <<s.css, q.css>>.
C17_Witness ==
  /\ Invalidated
  /\ last.files = <<"/q.css", "/s.css">>
  /\ ~HasNode("/q.css")
  /\ "/s.css" \in DOMAIN last.preCaches[SourcesCache]
  /\ "/s.css" \notin DOMAIN caches[SourcesCache]
  /\ PassOn(<<"/s.css", "/q.css">>).ret = last.ret
  /\ last.ret = TRUE

\* The same path twice in one list.
C17_WitnessRepeated ==
  /\ Invalidated
  /\ last.files = <<"/s.css", "/s.css">>
  /\ Len(last.toClean) = 1
  /\ last.ret = TRUE

\* C18: a pass leaves the nodes of the graph, both indices of its edges and every
\* entry point's output cache as they were.
C18_InvalidateFrame ==
  Invalidated =>
    /\ nodes = last.preNodes
    /\ dependents = last.preDependents
    /\ dependees = last.preDependees
    /\ outputCache = last.preOutputCache

\* A pass that evicts from the global and a private cache and sets an entry point to
\* pending, over a graph with edges and an output cache that holds an emitted file.
C18_Witness ==
  /\ Invalidated
  /\ last.ret = TRUE
  /\ caches[SourcesCache] # last.preCaches[SourcesCache]
  /\ caches["lib"] # last.preCaches["lib"]
  /\ state # last.preState
  /\ MapNodes(last.toClean) # {}
  /\ MapNodes(last.toClean) \subseteq nodes
  /\ dependents[fileUrl("/a.ts")] # {}
  /\ DOMAIN outputCache[Lib] # {}

Populated(entry) ==
  entry.exists # "undefined" \/ entry.content # Undefined \/ entry.sourceFile # Undefined

\* C19 as stated: every identifier with a populated field in the global content cache
\* has a node in the graph.
C19_CachedFilesTracked ==
  \A k \in DOMAIN caches[SourcesCache] :
    Populated(caches[SourcesCache][k]) => fileUrl(k) \in nodes

\* What the missing node costs: t.html was seen by fileExists, then removed from the
\* disk; the pass for it finds no node, returns false, and the cache still says the
\* file exists.
C19_Witness ==
  /\ Invalidated
  /\ last.files = <<"/t.html">>
  /\ ~HasNode("/t.html")
  /\ last.ret = FALSE
  /\ "/t.html" \in DOMAIN caches[SourcesCache]
  /\ caches[SourcesCache]["/t.html"].exists = "true"
  /\ ~HostFileExists("/t.html")

\* C20: when a suspended readResource ends, the content cache holds for its file what
\* it held when the call resumed; an entry evicted while the call was suspended is
\* still absent, with no content in it.
C20_NoStaleRepopulation ==
  last.op = "readResource:resume" =>
    /\ EntryOf(caches[last.cache], last.file).content = last.pre.content
    /\ last.pre = EmptyEntry => EntryOf(caches[last.cache], last.file) = EmptyEntry

\* readResource made the entry of s.css before it suspended; the entry is gone when
\* the call has ended, evicted by a pass in between, and the call has returned the
\* bundle and registered p.css.
C20_Witness ==
  /\ last.op = "readResource:resume"
  /\ last.file = "/s.css"
  /\ "/s.css" \notin DOMAIN caches[last.cache]
  /\ ~last.threw
  /\ last.ret = Bundle(OnDisk("/s.css"))
  /\ fileUrl("/p.css") \in dependents[fileUrl("/s.css")]

====
